---- MODULE Spec2Model ----
(***************************************************************************)
(* Model of src/summarization/why_it_moves_simple.py: the mover-summary    *)
(* pipeline (get_news_articles, process_company_data, classify_company,   *)
(* why_it_moves, process_all_stocks).                                      *)
(*                                                                         *)
(* Two specifications share the variables:                                 *)
(*   SpecPure  applies classify_company and process_company_data to        *)
(*             inputs drawn from bounded sets (the pure decision flow);    *)
(*   Spec      is the file-level system: the news cache, the output        *)
(*             directory, the log, direct why_it_moves calls and the       *)
(*             process_all_stocks loop.  FairSpec is process_all_stocks    *)
(*             alone, with the fairness of a sequential program.           *)
(*                                                                         *)
(* Change percentages are floats in the code; the model writes them in     *)
(* tenths of a percent (-25 is -2.5%).  Texts are represented by a few     *)
(* strings: what matters to the code is only whether a text is empty,     *)
(* the sentinel, or anything else.                                         *)
(***************************************************************************)
EXTENDS Integers, Sequences, FiniteSets, TLC

\* ------------------------------------------------------------------ bounds
\* Most articles in one call of process_company_data (SpecPure).
MaxArticles == 2
\* Most articles in one cached news file (Spec).
MaxFileLen == 1
\* Most why_it_moves calls in one behaviour of Spec; also the clock's range.
MaxClock == 2

\* --------------------------------------------------------------- constants
\* get_news_articles keeps the first 5 articles.
RecentLimit == 5

SENTINEL == "Full article text not found."
NO_NEWS_TEXT == "There are no news currently affecting the stock price, fluctuations might be due to market conditions."
NO_VALID_TEXT == "No valid article summaries could be generated."
ERROR_TEXT == "There was an error generating the summary."

\* A key that the mapping does not hold (Python: `key not in article`).
Absent == "<absent>"
\* A collaborator call that raises instead of returning.
RAISE == "<raise>"

\* -------------------------------------------------------------- articles
\* Article mappings: optional full_article_text, optional url, optional link.
ArticleKinds ==
  { [full_article_text |-> "cached text", url |-> "http://a", link |-> Absent],
    [full_article_text |-> SENTINEL,      url |-> "http://b", link |-> Absent],
    [full_article_text |-> Absent,        url |-> Absent,     link |-> "http://c"],
    [full_article_text |-> "",            url |-> "",         link |-> "http://d"],
    [full_article_text |-> Absent,        url |-> Absent,     link |-> Absent],
    [full_article_text |-> SENTINEL,      url |-> Absent,     link |-> Absent] }

\* Line 50: the article already has text.
HasCachedText(article) ==
  /\ article.full_article_text # Absent
  /\ article.full_article_text # ""
  /\ article.full_article_text # SENTINEL

\* Line 55: article.get("url", article.get("link", "")).
UrlOf(article) ==
  IF article.url # Absent THEN article.url
  ELSE IF article.link # Absent THEN article.link
  ELSE ""

\* ----------------------------------------------------------- collaborators
\* extract_article_text(url): a string (the sentinel on failure), or raises.
ExtractOutcomes == {SENTINEL, "", "extracted text", RAISE}
\* condensed_text of one processed article: missing, empty or a text.
CondensedOutcomes == {Absent, "", "condensed"}
\* process_articles_batch(...): raises, or returns the processed articles
\* (here: their condensed texts).
NlpRaises == [raised |-> TRUE, processed |-> <<>>]
NlpReturns(processed) == [raised |-> FALSE, processed |-> processed]
\* summarize_article(...): an empty result, a summary, or raises.
SummaryOutcomes == {"", "article summary", RAISE}
\* summarize_articles(...): the explanation, or raises.
AggregateOutcomes == {"explanation", RAISE}

\* ------------------------------------------------------ classify_company
ClassifyGainerOnZero(net_change_percentage) ==
  IF net_change_percentage >= 0 THEN "gainer" ELSE "loser"

classify_company(net_change_percentage) ==
  IF net_change_percentage > 0 THEN "gainer" ELSE "loser"

\* --------------------------------------------------- process_company_data
\* Line 59: a freshly extracted text counts unless it is the sentinel.
CountsAlways(full_article_text) == TRUE

ExtractedCounts(full_article_text) == full_article_text # SENTINEL

\* Lines 47-60: the loop over news_articles.  extract[i] is what
\* extract_article_text does when called for article i.
RECURSIVE ExtractLoop(_, _, _, _, _)
ExtractLoop(articles, extract, i, articles_with_text, calls) ==
  IF i > Len(articles)
  THEN [raised |-> FALSE, articles |-> articles,
        articles_with_text |-> articles_with_text, extract_calls |-> calls]
  ELSE IF HasCachedText(articles[i])
  THEN ExtractLoop(articles, extract, i + 1, articles_with_text + 1, calls)
  ELSE IF UrlOf(articles[i]) = ""
  THEN ExtractLoop(articles, extract, i + 1, articles_with_text, calls)
  ELSE IF extract[i] = RAISE
  THEN [raised |-> TRUE, articles |-> articles,
        articles_with_text |-> articles_with_text,
        extract_calls |-> Append(calls, i)]
  ELSE ExtractLoop([articles EXCEPT ![i].full_article_text = extract[i]],
                   extract, i + 1,
                   IF ExtractedCounts(extract[i])
                   THEN articles_with_text + 1 ELSE articles_with_text,
                   Append(calls, i))

\* Line 85: article.get('condensed_text', '').
CondensedText(processed_article) ==
  IF processed_article = Absent THEN "" ELSE processed_article

\* Line 86: `if condensed_text:`.
SummarizesEverything(condensed_text) == TRUE

ShouldSummarize(condensed_text) == condensed_text # ""

\* Lines 82-96: the loop over processed_articles.  summarize[i] is what
\* summarize_article does when called for processed article i.
RECURSIVE SummaryLoop(_, _, _, _, _)
SummaryLoop(processed, summarize, i, summaries, calls) ==
  IF i > Len(processed)
  THEN [raised |-> FALSE, summaries |-> summaries, summarize_calls |-> calls]
  ELSE IF ~ShouldSummarize(CondensedText(processed[i]))
  THEN SummaryLoop(processed, summarize, i + 1, summaries, calls)
  ELSE IF summarize[i] = RAISE
  THEN [raised |-> TRUE, summaries |-> summaries,
        summarize_calls |-> Append(calls, i)]
  ELSE SummaryLoop(processed, summarize, i + 1,
                   IF summarize[i] # "" THEN Append(summaries, summarize[i])
                   ELSE summaries,
                   Append(calls, i))

\* Lines 38-44 and 65-71.
NoNewsRecord(symbol, exchange, classification) ==
  [symbol |-> symbol, exchange |-> exchange, type |-> classification,
   period |-> "day", summary |-> NO_NEWS_TEXT]

NoValidWithoutPeriod(symbol, exchange, classification) ==
  [symbol |-> symbol, exchange |-> exchange, type |-> classification,
   summary |-> NO_VALID_TEXT]

\* Lines 101-107.
NoValidRecord(symbol, exchange, classification) ==
  [symbol |-> symbol, exchange |-> exchange, type |-> classification,
   period |-> "day", summary |-> NO_VALID_TEXT]

\* Lines 113-119.
ErrorRecord(symbol, exchange, classification) ==
  [symbol |-> symbol, exchange |-> exchange, type |-> classification,
   period |-> "day", summary |-> ERROR_TEXT]

\* Line 110.
ExplanationRecord(symbol, exchange, classification, explanation) ==
  [symbol |-> symbol, exchange |-> exchange, type |-> classification,
   summary |-> explanation]

\* The value of a call that raised.
NoValue == [raised |-> TRUE]

\* What one call of process_company_data did: whether it raised, the record
\* it returned, the articles as it left them, and the collaborator calls.
Outcome(raised, value, articles, extract_calls, nlp_calls, summarize_calls, aggregate_calls, errors) ==
  [raised |-> raised, value |-> value, articles |-> articles,
   extract_calls |-> extract_calls, nlp_calls |-> nlp_calls,
   summarize_calls |-> summarize_calls, aggregate_calls |-> aggregate_calls,
   errors |-> errors]

\* Lines 73-119: the try block.  o.nlp is the outcome of
\* process_articles_batch, o.summarize and o.aggregate the outcomes
\* of summarize_article and summarize_articles.
SummarizeBlock(symbol, exchange, classification, ex, o) ==
  IF o.nlp.raised
  THEN Outcome(FALSE, ErrorRecord(symbol, exchange, classification),
               ex.articles, ex.extract_calls, 1, <<>>, 0, 1)
  ELSE LET sl == SummaryLoop(o.nlp.processed, o.summarize, 1, <<>>, <<>>) IN
    IF sl.raised
    THEN Outcome(FALSE, ErrorRecord(symbol, exchange, classification),
                 ex.articles, ex.extract_calls, 1, sl.summarize_calls, 0, 1)
    ELSE IF sl.summaries = <<>>
    THEN Outcome(FALSE, NoValidRecord(symbol, exchange, classification),
                 ex.articles, ex.extract_calls, 1, sl.summarize_calls, 0, 0)
    ELSE IF o.aggregate = RAISE
    THEN Outcome(FALSE, ErrorRecord(symbol, exchange, classification),
                 ex.articles, ex.extract_calls, 1, sl.summarize_calls, 1, 1)
    ELSE Outcome(FALSE,
                 ExplanationRecord(symbol, exchange, classification, o.aggregate),
                 ex.articles, ex.extract_calls, 1, sl.summarize_calls, 1, 0)

\* Lines 31-119.
process_company_data(symbol, exchange, news_articles, classification, o) ==
  IF news_articles = <<>>
  THEN Outcome(FALSE, NoNewsRecord(symbol, exchange, classification),
               news_articles, <<>>, 0, <<>>, 0, 0)
  ELSE LET ex == ExtractLoop(news_articles, o.extract, 1, 0, <<>>) IN
    IF ex.raised
    THEN Outcome(TRUE, NoValue, ex.articles, ex.extract_calls, 0, <<>>, 0, 0)
    ELSE IF ex.articles_with_text = 0
    THEN Outcome(FALSE, NoNewsRecord(symbol, exchange, classification),
                 ex.articles, ex.extract_calls, 0, <<>>, 0, 0)
    ELSE SummarizeBlock(symbol, exchange, classification, ex, o)

\* ------------------------------------------------- collaborator outcomes
\* The outcomes of the collaborator calls of one process_company_data call:
\* extract[i] for article i, nlp for process_articles_batch, summarize[i]
\* for processed article i, aggregate for summarize_articles.  A call that
\* is never made has one fixed outcome, so that equal runs are drawn once.
SeqsUpTo(S, n) == UNION {[1..k -> S] : k \in 0..n}

ExtractOracles(articles) ==
  {f \in [1..Len(articles) -> ExtractOutcomes] :
     \A i \in 1..Len(articles) :
       (\/ HasCachedText(articles[i])
        \/ UrlOf(articles[i]) = ""
        \/ \E j \in 1..(i - 1) : f[j] = RAISE) => f[i] = SENTINEL}

NlpReached(articles, f) ==
  /\ articles # <<>>
  /\ LET ex == ExtractLoop(articles, f, 1, 0, <<>>) IN
       ~ex.raised /\ ex.articles_with_text > 0

NlpOracles(articles) ==
  {NlpRaises} \cup {NlpReturns(p) : p \in SeqsUpTo(CondensedOutcomes, Len(articles))}

SummarizeOracles(nlp) ==
  IF nlp.raised THEN {<<>>}
  ELSE {g \in [1..Len(nlp.processed) -> SummaryOutcomes] :
          \A i \in 1..Len(nlp.processed) :
            (\/ CondensedText(nlp.processed[i]) = ""
             \/ \E j \in 1..(i - 1) : g[j] = RAISE) => g[i] = ""}

AggregateOracles(g) ==
  IF \E i \in DOMAIN g : g[i] \notin {"", RAISE}
  THEN IF \E i \in DOMAIN g : g[i] = RAISE THEN {"explanation"}
       ELSE AggregateOutcomes
  ELSE {"explanation"}

Oracles(articles) ==
  UNION { IF ~NlpReached(articles, f)
          THEN {[extract |-> f, nlp |-> NlpRaises, summarize |-> <<>>,
                 aggregate |-> "explanation"]}
          ELSE UNION { UNION { {[extract |-> f, nlp |-> n, summarize |-> g,
                                 aggregate |-> a] : a \in AggregateOracles(g)}
                               : g \in SummarizeOracles(n)}
                       : n \in NlpOracles(articles)}
          : f \in ExtractOracles(articles)}

\* =================================================================== state
VARIABLES
  news_dir,   \* whether STOCK_DB/news exists
  news,       \* symbol -> the state of STOCK_DB/news/<symbol>_news.json
  movers,     \* symbol -> the state of STOCK_DB/movers/<symbol>_summary.json
  log,        \* the WARNING and ERROR records logged so far
  clock,      \* the time; every why_it_moves call takes one tick
  batch,      \* the position of process_all_stocks
  last,       \* the most recent why_it_moves call: arguments and result
  returned,   \* symbol -> the record its most recent completed call returned
  completions,\* symbol -> the number of its why_it_moves calls that completed
  pin,        \* SpecPure: the arguments of the function applied
  pout        \* SpecPure: its result

vars == <<news_dir, news, movers, log, clock, batch, last, returned,
          completions, pin, pout>>
sysvars == <<news_dir, news, movers, log, clock, batch, last, returned,
             completions>>

\* ------------------------------------------------------------ SpecPure
\* Change percentages in tenths of a percent.
ChangePcts == {-75, -25, -1, 0, 1, 13, 50}
Classifications == {"gainer", "loser"}

NoOracle == [extract |-> <<>>, nlp |-> NlpRaises, summarize |-> <<>>,
             aggregate |-> "explanation"]
NoOutcome == Outcome(FALSE, NoValue, <<>>, <<>>, 0, <<>>, 0, 0)

\* The arguments of one classify_company call.
ClassifyInput(p) ==
  [op |-> "classify_company", net_change_percentage |-> p, symbol |-> "",
   exchange |-> "", news_articles |-> <<>>, classification |-> "",
   o |-> NoOracle]

\* The arguments of one process_company_data call, and the outcomes o of the
\* collaborator calls it makes.
BuildInput(articles, classification, o) ==
  [op |-> "process_company_data", net_change_percentage |-> 0,
   symbol |-> "AAPL", exchange |-> "NASDAQ", news_articles |-> articles,
   classification |-> classification, o |-> o]

NotApplied == [done |-> FALSE, classification |-> "", outcome |-> NoOutcome]

\* classify_company applied to the drawn percentage.
Classify ==
  /\ pin.op = "classify_company"
  /\ ~pout.done
  /\ pout' = [done |-> TRUE,
              classification |-> classify_company(pin.net_change_percentage),
              outcome |-> NoOutcome]
  /\ UNCHANGED <<pin, sysvars>>

\* process_company_data applied to the drawn arguments and outcomes.
Build ==
  /\ pin.op = "process_company_data"
  /\ ~pout.done
  /\ pout' = [done |-> TRUE, classification |-> pin.classification,
              outcome |-> process_company_data(pin.symbol, pin.exchange,
                             pin.news_articles, pin.classification, pin.o)]
  /\ UNCHANGED <<pin, sysvars>>

\* ------------------------------------------------------------ the files
Symbols == {"AAPL", "MSFT"}
\* The exchange label of the calls from outside the batch driver, which
\* itself passes "NASDAQ" (line 164).
Exchanges == {"NYSE"}
\* The change percentages of why_it_moves calls, in tenths of a percent.
RunPcts == {-25, 13}
\* Line 169: random.uniform(-5.0, 5.0).
BatchPcts == {p \in RunPcts : -50 <= p /\ p <= 50}

\* Lines 18 and 155: the stem of the file <symbol>_news.json, as its parts.
Stem(symbol) == <<symbol, "_news">>
\* Line 161: news_file.stem.replace("_news", "").
SymbolOfStem(stem) == SelectSeq(stem, LAMBDA part : part # "_news")[1]

\* A news file: absent, unreadable (load_json raises) or a list of articles.
MissingFile == [state |-> "missing", articles |-> <<>>]
CorruptFile == [state |-> "corrupt", articles |-> <<>>]
ReadableFile(articles) == [state |-> "readable", articles |-> articles]

\* The articles of the cached files: one with text, one awaiting extraction.
CachedArticleKinds == {a \in ArticleKinds : a.url \notin {Absent, ""}}
FileStates ==
  {MissingFile, CorruptFile}
    \cup {ReadableFile(a) : a \in SeqsUpTo(CachedArticleKinds, MaxFileLen)}

\* An output file: absent, or holding one JSON record.
NoFile == [exists |-> FALSE, json |-> NoValue]
FileHolding(record) == [exists |-> TRUE, json |-> record]

LogRecord(level, logger, symbol, time) ==
  [level |-> level, logger |-> logger, symbol |-> symbol, time |-> time]

\* ---------------------------------------------------- get_news_articles
GetNewsWarnsOnCorrupt(symbol, files, now) ==
  IF files[symbol].state = "readable"
  THEN [articles |-> files[symbol].articles, logged |-> {}]
  ELSE [articles |-> <<>>,
        logged |-> {LogRecord("WARNING", "get_news_articles", symbol, now)}]

\* Lines 16-29.
get_news_articles(symbol, files, now) ==
  IF files[symbol].state = "missing"
  THEN [articles |-> <<>>,
        logged |-> {LogRecord("WARNING", "get_news_articles", symbol, now)}]
  ELSE IF files[symbol].state = "corrupt"
  THEN [articles |-> <<>>,
        logged |-> {LogRecord("ERROR", "get_news_articles", symbol, now)}]
  ELSE [articles |->
          IF Len(files[symbol].articles) > RecentLimit
          THEN SubSeq(files[symbol].articles, 1, RecentLimit)
          ELSE files[symbol].articles,
        logged |-> {}]

\* ----------------------------------------------------------- why_it_moves
StampKeepsNothing(record, daily_change_percentage, now) ==
  [date_generated |-> now] @@ record

\* Lines 133-137: the record of process_company_data with the two stamps.
Stamp(record, daily_change_percentage, now) ==
  [daily_change_percentage |-> daily_change_percentage,
   date_generated |-> now] @@ record

OneFileForAll(symbol) == "AAPL"

\* Line 141: the output file of a symbol, named by the symbol.
OutputFile(symbol) == symbol

\* Lines 128-145.  save_ok: ensure_directory and save_json do not raise.
why_it_moves(symbol, exchange, daily_change_percentage, files, now, o, save_ok) ==
  LET classification == classify_company(daily_change_percentage)
      loaded == get_news_articles(symbol, files, now)
      r == process_company_data(symbol, exchange, loaded.articles,
                                classification, o)
      raised == r.raised \/ ~save_ok
      errors == IF r.errors > 0
                THEN {LogRecord("ERROR", "process_company_data", symbol, now)}
                ELSE {}
  IN [raised |-> raised,
      value |-> IF raised THEN NoValue
                ELSE Stamp(r.value, daily_change_percentage, now),
      saved |-> IF raised THEN {} ELSE {OutputFile(symbol)},
      logged |-> loaded.logged \cup errors]

\* What a call of process_company_data passes on to why_it_moves: whether it
\* raised, its value, and whether it logged an error.
Passed(r) == [raised |-> r.raised, value |-> r.value, errors |-> r.errors]

\* For each list of cached articles, one choice of collaborator outcomes for
\* every result process_company_data can pass on.  The files and the log
\* see nothing else of a call, so these choices stand for all of them.
CallOutcomeTable ==
  {<<a, LET passed(o) == Passed(process_company_data("", "", a, "", o)) IN
          {CHOOSE o \in Oracles(a) : passed(o) = r
             : r \in {passed(o) : o \in Oracles(a)}}>>
     : a \in SeqsUpTo(CachedArticleKinds, MaxFileLen)}

CallOutcomes(articles) ==
  (CHOOSE entry \in CallOutcomeTable : entry[1] = articles)[2]

NoCall == [called |-> FALSE, symbol |-> "", exchange |-> "",
           daily_change_percentage |-> 0, raised |-> FALSE, value |-> NoValue]

\* The state after the call w of why_it_moves(symbol, exchange, pct).
Called(symbol, exchange, pct, w, more_logged) ==
  /\ movers' = [f \in Symbols |->
                  IF f \in w.saved THEN FileHolding(w.value) ELSE movers[f]]
  /\ log' = log \cup w.logged \cup more_logged
  /\ clock' = clock + 1
  /\ last' = [called |-> TRUE, symbol |-> symbol, exchange |-> exchange,
              daily_change_percentage |-> pct, raised |-> w.raised,
              value |-> w.value]
  /\ returned' = IF w.raised THEN returned
                 ELSE [returned EXCEPT ![symbol] = FileHolding(w.value)]
  /\ completions' = IF w.raised THEN completions
                    ELSE [completions EXCEPT ![symbol] = @ + 1]
  /\ UNCHANGED <<news_dir, news, pin, pout>>

\* A call of why_it_moves from outside the batch driver.
Run ==
  /\ batch.pc = "idle"
  /\ clock < MaxClock
  /\ \E symbol \in Symbols, exchange \in Exchanges, pct \in RunPcts,
        save_ok \in BOOLEAN :
       \E o \in CallOutcomes(get_news_articles(symbol, news, clock).articles) :
         /\ Called(symbol, exchange, pct,
                   why_it_moves(symbol, exchange, pct, news, clock, o, save_ok),
                   {})
         /\ UNCHANGED batch

\* ----------------------------------------------------- process_all_stocks
Idle == [pc |-> "idle", listing |-> <<>>, idx |-> 0, calls |-> <<>>, t0 |-> 0]

\* The orders in which glob may list the files.
Listings(stems) ==
  {l \in [1..Cardinality(stems) -> stems] : \A x \in stems : \E i \in DOMAIN l : l[i] = x}

\* Lines 149-156: the directory check and the listing.
StartAll ==
  /\ batch.pc = "idle"
  /\ IF ~news_dir
     THEN /\ batch' = [Idle EXCEPT !.pc = "done", !.t0 = clock]
          /\ log' = log \cup {LogRecord("ERROR", "process_all_stocks", "", clock)}
     ELSE /\ \E listing \in Listings({Stem(s) : s \in {x \in Symbols : news[x].state # "missing"}}) :
               /\ clock + Len(listing) <= MaxClock
               /\ batch' = [pc |-> "loop", listing |-> listing, idx |-> 1,
                            calls |-> <<>>, t0 |-> clock]
          /\ log' = log
  /\ UNCHANGED <<news_dir, news, movers, clock, last, returned, completions,
               pin, pout>>

AbortsOnFailure(run_raised, idx) ==
  [pc |-> IF run_raised THEN "raised" ELSE "loop", idx |-> idx + 1]

\* Lines 158-159 and 182-183: the try/except is inside the loop, so the
\* loop goes on to the next file whether or not why_it_moves raised.
AfterIteration(run_raised, idx) == [pc |-> "loop", idx |-> idx + 1]

\* Lines 158-183: one iteration of the loop.
StepAll ==
  /\ batch.pc = "loop"
  /\ batch.idx <= Len(batch.listing)
  /\ LET symbol == SymbolOfStem(batch.listing[batch.idx])
         exchange == "NASDAQ"
     IN \E daily_change \in BatchPcts, save_ok \in BOOLEAN :
          \E o \in CallOutcomes(get_news_articles(symbol, news, clock).articles) :
            LET w == why_it_moves(symbol, exchange, daily_change, news, clock,
                                  o, save_ok)
                it == AfterIteration(w.raised, batch.idx)
            IN /\ Called(symbol, exchange, daily_change, w,
                         IF w.raised
                         THEN {LogRecord("ERROR", "process_all_stocks", symbol, clock)}
                         ELSE {})
               /\ batch' = [batch EXCEPT
                              !.pc = it.pc, !.idx = it.idx,
                              !.calls = Append(@, [symbol |-> symbol,
                                                   exchange |-> exchange,
                                                   raised |-> w.raised])]

\* The loop is over: process_all_stocks returns.
EndAll ==
  /\ batch.pc = "loop"
  /\ batch.idx > Len(batch.listing)
  /\ batch' = [batch EXCEPT !.pc = "done"]
  /\ UNCHANGED <<news_dir, news, movers, log, clock, last, returned,
               completions, pin, pout>>

\* ------------------------------------------------------- specifications
NoInput == [op |-> "none", net_change_percentage |-> 0, symbol |-> "",
            exchange |-> "", news_articles |-> <<>>, classification |-> "",
            o |-> NoOracle]

Init ==
  /\ news_dir \in BOOLEAN
  /\ news \in [Symbols -> FileStates]
  /\ ~news_dir => \A s \in Symbols : news[s] = MissingFile
  /\ movers = [s \in Symbols |-> NoFile]
  /\ log = {}
  /\ clock = 0
  /\ batch = Idle
  /\ last = NoCall
  /\ returned = [s \in Symbols |-> NoFile]
  /\ completions = [s \in Symbols |-> 0]
  /\ pin = NoInput
  /\ pout = NotApplied

Next == Run \/ StartAll \/ StepAll \/ EndAll

Spec == Init /\ [][Next]_vars

\* process_all_stocks alone, as the program's entry point.  It is a
\* sequential loop: an iteration that can run, runs.
BatchNext == StartAll \/ StepAll \/ EndAll

FairSpec ==
  Init /\ [][BatchNext]_vars /\ WF_vars(StepAll) /\ WF_vars(EndAll)

InitPure ==
  /\ \/ \E p \in ChangePcts : pin = ClassifyInput(p)
     \/ \E a \in SeqsUpTo(ArticleKinds, MaxArticles), c \in Classifications :
          \E o \in Oracles(a) : pin = BuildInput(a, c, o)
  /\ pout = NotApplied
  /\ news_dir = FALSE
  /\ news = [s \in Symbols |-> MissingFile]
  /\ movers = [s \in Symbols |-> NoFile]
  /\ log = {}
  /\ clock = 0
  /\ batch = Idle
  /\ last = NoCall
  /\ returned = [s \in Symbols |-> NoFile]
  /\ completions = [s \in Symbols |-> 0]

NextPure == Classify \/ Build

SpecPure == InitPure /\ [][NextPure]_vars

\* ================================================================ claims
\* ---- helpers of the claims on process_company_data (SpecPure)
Built == pin.op = "process_company_data" /\ pout.done
Result == pout.outcome
\* Article i ends with usable text: non-empty and not the sentinel.
EndsUsable(i) ==
  Result.articles[i].full_article_text \notin {Absent, "", SENTINEL}
\* The cached text of article i, or the text freshly extracted for it, is
\* the sentinel.
EndsAsSentinel(i) ==
  IF \E k \in DOMAIN Result.extract_calls : Result.extract_calls[k] = i
  THEN pin.o.extract[i] = SENTINEL
  ELSE pin.news_articles[i].full_article_text = SENTINEL
NoSummarizerCalled ==
  /\ Result.nlp_calls = 0
  /\ Result.summarize_calls = <<>>
  /\ Result.aggregate_calls = 0
HasPeriod == "period" \in DOMAIN Result.value

\* C1: classify_company returns "gainer" for every percentage above zero and
\* "loser" for every percentage at or below zero (zero included), and
\* nothing else.
C1_ClassifyBySign ==
  (pin.op = "classify_company" /\ pout.done) =>
    /\ pin.net_change_percentage > 0 => pout.classification = "gainer"
    /\ pin.net_change_percentage <= 0 => pout.classification = "loser"
    /\ pout.classification \in {"gainer", "loser"}

C1_Witness ==
  /\ pin.op = "classify_company" /\ pout.done
  /\ pin.net_change_percentage = 0
  /\ pout.classification = "loser"

\* C2: with no articles, or with every article's cached or freshly extracted
\* text equal to the sentinel, process_company_data returns the no-news
\* fallback (period "day", type the given classification) and calls neither
\* the NLP condenser nor a summarizer.
C2_NoNewsFallback ==
  (/\ Built
   /\ \A i \in DOMAIN pin.news_articles : EndsAsSentinel(i)) =>
    /\ ~Result.raised
    /\ Result.value = NoNewsRecord(pin.symbol, pin.exchange, pin.classification)
    /\ Result.value.period = "day"
    /\ Result.value.summary = NO_NEWS_TEXT
    /\ Result.value.type = pin.classification
    /\ NoSummarizerCalled

C2_Witness ==
  /\ Built
  /\ Len(pin.news_articles) = MaxArticles
  /\ \A i \in DOMAIN pin.news_articles : EndsAsSentinel(i)
  /\ Result.extract_calls # <<>>
  /\ Result.value.summary = NO_NEWS_TEXT

\* C3: when some article has usable text, the condenser returns, and every
\* article either has an empty condensed text or an empty per-article
\* summary, the result is the "no valid summaries" fallback and
\* summarize_articles is not called; and summarize_article is only ever
\* called for a non-empty condensed text.
C3_NoValidFallback ==
  Built =>
    /\ \A k \in DOMAIN Result.summarize_calls :
         CondensedText(pin.o.nlp.processed[Result.summarize_calls[k]]) # ""
    /\ (/\ ~Result.raised
        /\ \E i \in DOMAIN Result.articles : EndsUsable(i)
        /\ ~pin.o.nlp.raised
        /\ \A i \in DOMAIN pin.o.nlp.processed :
             \/ CondensedText(pin.o.nlp.processed[i]) = ""
             \/ pin.o.summarize[i] = "") =>
         /\ Result.value.summary = NO_VALID_TEXT
         /\ Result.value.type = pin.classification
         /\ Result.aggregate_calls = 0

C3_Witness ==
  /\ Built /\ ~Result.raised
  /\ \E i \in DOMAIN Result.articles : EndsUsable(i)
  /\ ~pin.o.nlp.raised
  /\ \E i \in DOMAIN pin.o.nlp.processed :
       CondensedText(pin.o.nlp.processed[i]) = ""
  /\ Result.summarize_calls # <<>>
  /\ \A i \in DOMAIN pin.o.nlp.processed : pin.o.summarize[i] = ""
  /\ Result.value.summary = NO_VALID_TEXT

\* C6: process_company_data never propagates a collaborator's exception:
\* whichever collaborator raises (extraction, condenser, either summarizer),
\* the call returns the "error generating the summary" fallback.
C6_NeverPropagates ==
  Built =>
    /\ ~Result.raised
    /\ ((\/ \E k \in DOMAIN Result.extract_calls :
               pin.o.extract[Result.extract_calls[k]] = RAISE
         \/ Result.nlp_calls = 1 /\ pin.o.nlp.raised
         \/ \E k \in DOMAIN Result.summarize_calls :
               pin.o.summarize[Result.summarize_calls[k]] = RAISE
         \/ Result.aggregate_calls = 1 /\ pin.o.aggregate = RAISE)
          => Result.value.summary = ERROR_TEXT)

C9_EmptyTextIsNotUsable ==
  (Built /\ ~Result.raised /\ pin.news_articles # <<>>) =>
    /\ \A k \in DOMAIN Result.extract_calls :
         ~HasCachedText(pin.news_articles[Result.extract_calls[k]])
    /\ (\A i \in DOMAIN Result.articles : ~EndsUsable(i)) =>
         /\ Result.value.summary = NO_NEWS_TEXT
         /\ Result.nlp_calls = 0

\* ---- helpers of the claims on why_it_moves and process_all_stocks (Spec)
BatchSymbols ==
  {SymbolOfStem(batch.listing[i]) : i \in DOMAIN batch.listing}
\* The output file of s was written by a call of the batch.  (Calls from
\* outside happen before the batch starts, at times below batch.t0.)
WrittenInBatch(s) ==
  movers[s].exists /\ movers[s].json.date_generated >= batch.t0
\* The call of the batch for s completed.
CompletedInBatch(s) ==
  \E k \in DOMAIN batch.calls :
    batch.calls[k].symbol = s /\ ~batch.calls[k].raised
\* The batch has run over one corrupt file (c) and one readable file (v).
OneCorruptOneValid(c, v) ==
  /\ batch.pc = "done"
  /\ news_dir
  /\ news[c] = CorruptFile
  /\ news[v].state = "readable"

\* C4: the record a why_it_moves call returns has daily_change_percentage
\* equal to the argument, type "gainer" for a positive and "loser" for any
\* other percentage, the symbol and exchange of the call and a
\* date_generated stamp, whatever process_company_data returned; the call
\* ("AAPL", "NASDAQ", -2.5%) over a cache file without articles returns and
\* saves a "loser" record with the no-news text.
C4_StampedRecord ==
  (last.called /\ ~last.raised) =>
    /\ {"daily_change_percentage", "date_generated", "type", "symbol",
        "exchange", "summary"} \subseteq DOMAIN last.value
    /\ last.value.daily_change_percentage = last.daily_change_percentage
    /\ last.daily_change_percentage > 0 => last.value.type = "gainer"
    /\ last.daily_change_percentage <= 0 => last.value.type = "loser"
    /\ last.value.symbol = last.symbol
    /\ last.value.exchange = last.exchange
    /\ (/\ last.symbol = "AAPL" /\ last.exchange = "NASDAQ"
        /\ last.daily_change_percentage = -25
        /\ news["AAPL"] = ReadableFile(<<>>)) =>
         /\ last.value.type = "loser"
         /\ last.value.summary = NO_NEWS_TEXT
         /\ last.value.daily_change_percentage = -25
         /\ movers["AAPL"] = FileHolding(last.value)

C4_Witness ==
  /\ last.called /\ ~last.raised
  /\ last.symbol = "AAPL" /\ last.exchange = "NASDAQ"
  /\ last.daily_change_percentage = -25
  /\ news["AAPL"] = ReadableFile(<<>>)
  /\ movers["AAPL"].exists
  /\ movers["AAPL"].json.type = "loser"
  /\ movers["AAPL"].json.summary = NO_NEWS_TEXT

\* C5 as stated: after process_all_stocks over one corrupt and one valid
\* news file, no summary file has been written for the corrupt symbol, one
\* has been written for the valid symbol if its call completed, and an error
\* is logged for the corrupt one.
C5_NoSummaryForCorrupt ==
  \A c, v \in Symbols :
    OneCorruptOneValid(c, v) =>
      /\ ~WrittenInBatch(c)
      /\ CompletedInBatch(v) => WrittenInBatch(v)
      /\ \E r \in log : r.level = "ERROR" /\ r.symbol = c /\ r.time >= batch.t0

\* C5: after process_all_stocks over one corrupt and one valid news file,
\* get_news_articles has logged an error for the corrupt one, which is then
\* treated as a symbol without articles: every call that completed, the
\* corrupt symbol's included, has written its summary file, the corrupt
\* symbol's being the no-news fallback; and process_all_stocks has called
\* why_it_moves for both and returned.
C5_CorruptGetsNoNewsSummary ==
  \A c, v \in Symbols :
    OneCorruptOneValid(c, v) =>
      /\ \E r \in log :
           /\ r.level = "ERROR" /\ r.logger = "get_news_articles"
           /\ r.symbol = c /\ r.time >= batch.t0
      /\ \A s \in {c, v} : CompletedInBatch(s) => WrittenInBatch(s)
      /\ CompletedInBatch(c) =>
           /\ movers[c].json.summary = NO_NEWS_TEXT
           /\ movers[c].json.period = "day"
           /\ movers[c].json.symbol = c
      /\ {batch.calls[k].symbol : k \in DOMAIN batch.calls} = {c, v}

C5_Witness ==
  \E c, v \in Symbols :
    /\ OneCorruptOneValid(c, v)
    /\ WrittenInBatch(c) /\ WrittenInBatch(v)
    /\ movers[c].json.summary = NO_NEWS_TEXT
    /\ \E r \in log : r.level = "ERROR" /\ r.symbol = c

\* The calls process_all_stocks has made so far are those for the files
\* listed so far, in order, and it has not raised.
C7_CallsSoFar ==
  /\ batch.pc # "raised"
  /\ batch.pc \in {"loop", "done"} =>
       /\ Len(batch.calls) =
            (IF batch.pc = "loop" THEN batch.idx - 1 ELSE Len(batch.listing))
       /\ \A k \in DOMAIN batch.calls :
            /\ batch.calls[k].symbol = SymbolOfStem(batch.listing[k])
            /\ batch.calls[k].exchange = "NASDAQ"
       /\ \A s \in Symbols :
            Cardinality({k \in DOMAIN batch.calls : batch.calls[k].symbol = s}) <= 1
  /\ batch.pc = "done" => BatchSymbols = {s \in Symbols : news[s].state # "missing"}

\* C7: process_all_stocks calls why_it_moves once for each listed file, in
\* listing order, with exchange "NASDAQ", whichever of the calls raise; it
\* never raises itself, and once started it returns.
C7_IsolatesFailures ==
  /\ []C7_CallsSoFar
  /\ (batch.pc = "loop") ~> (batch.pc = "done")

C7_Witness ==
  /\ batch.pc = "done"
  /\ Len(batch.calls) = Cardinality(Symbols)
  /\ batch.calls[1].raised
  /\ ~batch.calls[2].raised
  /\ WrittenInBatch(batch.calls[2].symbol)

\* Every output file holds exactly the record that the most recent
\* completed call for its symbol returned.
C10_FilesHoldLastRecord ==
  \A s \in Symbols :
    /\ movers[s] = returned[s]
    /\ movers[s].exists <=> completions[s] > 0

\* A step changes no news file, and a call changes no other symbol's file.
C10_CallFrame ==
  /\ news' = news
  /\ news_dir' = news_dir
  /\ clock' # clock =>
       \A s \in Symbols : s # last'.symbol => movers'[s] = movers[s]

\* C10: every output file holds exactly the record of the most recent
\* completed why_it_moves call for its symbol; a call leaves the output
\* files of the other symbols and every news file as they were.
C10_OwnFileOnly ==
  /\ []C10_FilesHoldLastRecord
  /\ [][C10_CallFrame]_vars

C10_Witness ==
  /\ completions["AAPL"] > 1
  /\ completions["MSFT"] = 0
  /\ movers["AAPL"].exists
  /\ movers["AAPL"].json.date_generated = clock - 1
  /\ ~movers["MSFT"].exists

====
